---- MODULE Spec2Model ----
(***************************************************************************)
(* Risk-scoring engine of backend_main.py: the ModelRegistry (train and    *)
(* predict), the API routes that guard it, and the labelling functions.    *)
(*                                                                         *)
(* A fitted estimator is represented by the number of the training run     *)
(* that fitted it (0: never fitted / absent).  train() and predict() are   *)
(* modelled statement by statement, so that a caller running them on       *)
(* different threads (spec section 5) interleaves at field granularity.    *)
(***************************************************************************)
EXTENDS Integers, Sequences, FiniteSets, TLC

\* ------------------------------------------------------------------ bounds
\* number of train() invocations explored
MaxRuns == 2
\* rows of an uploaded CSV
MaxRows == 1
\* class probabilities are the multiples of 1/ConfDen in [0,1]
ConfDen == 40
\* raw regressor outputs are the multiples of 1/RawDen in [-1,2]
RawDen == 8
\* scores given to score_to_label are the multiples of 1/ScoreDen in [-2,MaxScore]
ScoreDen == 10
MaxScore == 102
\* training scores given to to_label are the multiples of 1/UnitDen in [0,1]
UnitDen == 400
\* forecasts whose draws the generator position still tells apart
MaxForecasts == 1
\* the noise of a forecast day: multiples of 1/NoiseDen up to MaxNoise either way
NoiseDen == 4
MaxNoise == 16
\* months a reading can carry: -MaxMonth .. MaxMonth
MaxMonth == 14
\* seeds a caller sets (beside 42), samples asked for, draws between two calls
MaxSeed == 2
MaxN == 2
MaxDraws == 3

\* --------------------------------------------------------------- constants
DISEASE_TARGETS ==
    << "vector_score", "water_score", "respiratory_score", "heat_score",
       "nutrition_score", "mental_score", "skin_score" >>

NTargets == Len(DISEASE_TARGETS)

Targets == { DISEASE_TARGETS[i] : i \in 1..NTargets }

\* keys of training_metrics: "overall_accuracy" and "<target>_rmse"
MetricKeys == {"overall_accuracy"} \cup Targets

Endpoints == {"direct", "predict", "compare", "upload_csv", "model_metrics"}

VARIABLES
    \* ModelRegistry fields
    is_trained,        \* self.is_trained
    scaler,            \* self.scaler: run that fitted it, 0 = unfitted StandardScaler()
    overall_clf,       \* self.overall_clf: [run, fitted]; run 0 = None
    disease_regs,      \* self.disease_regs: target -> run that fitted it, 0 = key absent
    training_metrics,  \* self.training_metrics: key -> run that wrote it, 0 = key absent
    \* the thread executing train()
    tpc,               \* position inside train()
    ti,                \* index of the target the regressor loop is at
    runs,              \* number of train() invocations so far
    last,              \* how the latest train() ended: "none", "running", "ok", "failed"
    everFailed,        \* some fit has raised
    df,                \* train()'s local df: the samples this run trains on
    \* the thread executing a request / predict()
    ppc,               \* position inside the route handler and predict()
    pj,                \* index of the target predict's loop is at
    req,               \* the request: endpoint, file name ok, predict calls left
    seen,              \* the runs whose scaler, classifier (predict, predict_proba)
                       \* and regressors this predict call used
    pcall,             \* the latest predict() call: is_trained as it found it,
                       \* whether train() was running during it, how it ended
    resp,              \* what the caller got
    \* the numeric side of the engine: raw model outputs and scores
    input,             \* the arguments of the function under evaluation
    output,            \* what it returned
    \* numpy's process-global generator (np.random)
    rng                \* [seed, pos]: the seed last set and the draws made since

regvars == << is_trained, scaler, overall_clf, disease_regs, training_metrics >>
tvars   == << tpc, ti, runs, last, everFailed, df >>
pvars   == << ppc, pj, req, seen, pcall, resp >>
vars    == << is_trained, scaler, overall_clf, disease_regs, training_metrics,
              tpc, ti, runs, last, everFailed, df, ppc, pj, req, seen, pcall, resp,
              input, output, rng >>

\* ------------------------------------------------------------ constructor
NoneClf == [run |-> 0, fitted |-> FALSE]

NoSeen == [scaler |-> 0, clf |-> 0, proba |-> 0, regs |-> {}]

NoReq == [ep |-> "none", csv |-> TRUE, left |-> 0, trained |-> FALSE]

NoCall == [trained |-> FALSE, overlap |-> FALSE, out |-> "none"]

NoResp == [kind |-> "none", status |-> 0]

NoValue == [fn |-> "none"]

\* np.random.seed(42) in generate_training_data
SEED == 42

\* generate_training_data(n_samples=8000) in train()
N_SAMPLES == 8000

\* np.random calls per sample: month, temp, humidity, rainfall, aqi, uv, 7 beta
DRAWS_PER_SAMPLE == 13

\* np.random calls of one generate_14day_forecast: one normal per day
FORECAST_DAYS == 14

\* the generator as the interpreter starts it: seeded from the system's entropy,
\* written as seed 0
EntropyRng == [seed |-> 0, pos |-> 0]

\* np.random.seed(s)
Seeded(s) == [seed |-> s, pos |-> 0]

\* the generator after k more draws
Advance(r, k) == [r EXCEPT !.pos = @ + k]

\* a synthesizer that draws from the generator as it finds it
keep_state(r) == r

\* np.random.seed(42), the first statement of generate_training_data: the state
\* the generator was in plays no part
reseed(r) == Seeded(SEED)

\* the n samples computed from the draws that follow the generator state r
samples_from(r, n) == [seed |-> r.seed, pos |-> r.pos, n |-> n]

\* generate_training_data(n_samples) called in the generator state r
generate_training_data(r, n_samples) == samples_from(reseed(r), n_samples)

\* no samples: train() has not been called
NoData == samples_from(EntropyRng, 0)

\* a synthesizer that goes on from the state it finds
RngAfterGenerateNoSeed(r, n) == Advance(r, n * DRAWS_PER_SAMPLE)

\* the generator when generate_training_data(n) returns
RngAfterGenerate(r, n) == Advance(reseed(r), n * DRAWS_PER_SAMPLE)

\* the generator after one forecast; positions past MaxForecasts forecasts
\* after a training are not told apart
RngAfterForecast(r) ==
    LET top == N_SAMPLES * DRAWS_PER_SAMPLE + MaxForecasts * FORECAST_DAYS
        a   == Advance(r, FORECAST_DAYS)
    IN  IF a.pos > top THEN [a EXCEPT !.pos = top] ELSE a

\* ModelRegistry.__init__
RegistryInit ==
    /\ overall_clf = NoneClf
    /\ disease_regs = [t \in Targets |-> 0]
    /\ scaler = 0
    /\ is_trained = FALSE
    /\ training_metrics = [k \in MetricKeys |-> 0]

\* the process before train() was ever called and with no request in flight
Fresh ==
    /\ RegistryInit
    /\ tpc = "idle" /\ ti = 1 /\ runs = 0 /\ last = "none" /\ everFailed = FALSE
    /\ df = NoData
    /\ ppc = "idle" /\ pj = 1 /\ req = NoReq /\ seen = NoSeen
    /\ pcall = NoCall /\ resp = NoResp
    /\ rng = EntropyRng

Init ==
    /\ Fresh
    /\ input = NoValue /\ output = NoValue

\* ------------------------------------------------------------------ train
\* a train step that runs while a predict call is between entry and return
Overlaps == ppc \in {"transform", "clf_predict", "clf_proba", "regs"}

MarkOverlap == pcall' = [pcall EXCEPT !.overlap = @ \/ Overlaps]

TrainFrame == UNCHANGED << ppc, pj, req, seen, resp, input, output >>

TrainStepFrame == TrainFrame /\ UNCHANGED rng

\* train(): called; generate_training_data(n_samples=8000)
TrainBegin ==
    /\ tpc = "idle"
    /\ runs < MaxRuns
    /\ runs' = runs + 1
    /\ tpc' = "scaler"
    /\ last' = "running"
    /\ df' = generate_training_data(rng, N_SAMPLES)
    /\ rng' = RngAfterGenerate(rng, N_SAMPLES)
    /\ UNCHANGED << ti, everFailed >>
    /\ UNCHANGED regvars
    /\ MarkOverlap /\ TrainFrame

\* X_scaled = self.scaler.fit_transform(X)
FitScaler ==
    /\ tpc = "scaler"
    /\ scaler' = runs
    /\ tpc' = "clf_new"
    /\ UNCHANGED << is_trained, overall_clf, disease_regs, training_metrics >>
    /\ UNCHANGED << ti, runs, last, everFailed, df >>
    /\ MarkOverlap /\ TrainStepFrame

\* self.overall_clf = xgb.XGBClassifier(...)
NewClassifier ==
    /\ tpc = "clf_new"
    /\ overall_clf' = [run |-> runs, fitted |-> FALSE]
    /\ tpc' = "clf_fit"
    /\ UNCHANGED << is_trained, scaler, disease_regs, training_metrics >>
    /\ UNCHANGED << ti, runs, last, everFailed, df >>
    /\ MarkOverlap /\ TrainStepFrame

\* self.overall_clf.fit(...) returns
FitClassifierOk ==
    /\ tpc = "clf_fit"
    /\ overall_clf' = [overall_clf EXCEPT !.fitted = TRUE]
    /\ tpc' = "clf_metric"
    /\ UNCHANGED << is_trained, scaler, disease_regs, training_metrics >>
    /\ UNCHANGED << ti, runs, last, everFailed, df >>
    /\ MarkOverlap /\ TrainStepFrame

\* an exception leaves train() and the registry is marked untrained again
TrainRaiseResets ==
    /\ tpc' = "idle"
    /\ ti' = 1
    /\ last' = "failed"
    /\ everFailed' = TRUE
    /\ is_trained' = FALSE
    /\ UNCHANGED << runs, df >>
    /\ UNCHANGED << scaler, overall_clf, disease_regs, training_metrics >>
    /\ MarkOverlap /\ TrainStepFrame

\* an exception leaves train(): nothing is undone
TrainRaise ==
    /\ tpc' = "idle"
    /\ ti' = 1
    /\ last' = "failed"
    /\ everFailed' = TRUE
    /\ UNCHANGED << runs, df >>
    /\ UNCHANGED regvars
    /\ MarkOverlap /\ TrainStepFrame

\* self.overall_clf.fit(...) raises
FitClassifierFail ==
    /\ tpc = "clf_fit"
    /\ TrainRaise

\* the accuracy of this run is not written: an earlier run's stays
ClassifierMetricSkipped ==
    /\ tpc = "clf_metric"
    /\ tpc' = "reg_fit"
    /\ ti' = 1
    /\ UNCHANGED regvars
    /\ UNCHANGED << runs, last, everFailed, df >>
    /\ MarkOverlap /\ TrainStepFrame

\* self.training_metrics["overall_accuracy"] = round(clf_acc, 4)
ClassifierMetric ==
    /\ tpc = "clf_metric"
    /\ training_metrics' = [training_metrics EXCEPT !["overall_accuracy"] = runs]
    /\ tpc' = "reg_fit"
    /\ ti' = 1
    /\ UNCHANGED << is_trained, scaler, overall_clf, disease_regs >>
    /\ UNCHANGED << runs, last, everFailed, df >>
    /\ MarkOverlap /\ TrainStepFrame

\* reg.fit(...) returns; self.disease_regs[target] = reg
FitRegressorOk ==
    /\ tpc = "reg_fit"
    /\ ti <= NTargets
    /\ disease_regs' = [disease_regs EXCEPT ![DISEASE_TARGETS[ti]] = runs]
    /\ tpc' = "reg_metric"
    /\ UNCHANGED << is_trained, scaler, overall_clf, training_metrics >>
    /\ UNCHANGED << ti, runs, last, everFailed, df >>
    /\ MarkOverlap /\ TrainStepFrame

\* reg.fit(...) raises for the target the loop is at
FitRegressorFail ==
    /\ tpc = "reg_fit"
    /\ ti <= NTargets
    /\ TrainRaise

\* self.training_metrics[f"{target}_rmse"] = round(rmse, 4); next target
RegressorMetric ==
    /\ tpc = "reg_metric"
    /\ training_metrics' = [training_metrics EXCEPT ![DISEASE_TARGETS[ti]] = runs]
    /\ ti' = ti + 1
    /\ tpc' = "reg_fit"
    /\ UNCHANGED << is_trained, scaler, overall_clf, disease_regs >>
    /\ UNCHANGED << runs, last, everFailed, df >>
    /\ MarkOverlap /\ TrainStepFrame

\* the value train() leaves in is_trained when the loop is over
TrainedFlag == TRUE

\* self.is_trained = True; return self.training_metrics
TrainEnd ==
    /\ tpc = "reg_fit"
    /\ ti > NTargets
    /\ is_trained' = TrainedFlag
    /\ tpc' = "idle"
    /\ ti' = 1
    /\ last' = "ok"
    /\ UNCHANGED << scaler, overall_clf, disease_regs, training_metrics >>
    /\ UNCHANGED << runs, everFailed, df >>
    /\ MarkOverlap /\ TrainStepFrame

Train ==
    \/ TrainBegin
    \/ FitScaler
    \/ NewClassifier
    \/ FitClassifierOk
    \/ FitClassifierFail
    \/ ClassifierMetric
    \/ FitRegressorOk
    \/ FitRegressorFail
    \/ RegressorMetric
    \/ TrainEnd


\* ------------------------------------------------ routes and predict()
PredictFrame == UNCHANGED << tpc, ti, runs, last, everFailed, df, input, output, rng >>

\* a guard that tests the classifier field instead of the flag
PredictNotReadyClfNone == overall_clf = NoneClf

\* the guard of predict(): if not self.is_trained: raise RuntimeError
PredictNotReady == ~is_trained

\* a guard that one route forgets
RouteNotReadyButCompare(ep) == ep # "compare" /\ ~is_trained

\* the guard of a route: if not registry.is_trained: raise HTTPException(503)
RouteNotReady(ep) == ~is_trained

\* number of registry.predict calls a route makes
PredictCalls(ep, rows) ==
    CASE ep = "predict"    -> 1
      [] ep = "compare"    -> 2
      [] ep = "upload_csv" -> rows
      [] OTHER             -> 0

Respond(kind, status) ==
    /\ resp' = [kind |-> kind, status |-> status]
    /\ ppc' = "done"

\* a route handler is entered: /predict, /compare, /upload/csv, /model/metrics
RouteEnter(ep, csv, rows) ==
    /\ ppc = "idle"
    /\ req' = [ep |-> ep, csv |-> csv, left |-> PredictCalls(ep, rows),
               trained |-> is_trained]
    /\ IF ep = "upload_csv" /\ ~csv
         THEN Respond("http_error", 400)
       ELSE IF RouteNotReady(ep)
         THEN Respond("http_error", 503)
       ELSE IF PredictCalls(ep, rows) = 0
         THEN Respond(IF ep = "model_metrics" THEN "metrics" ELSE "batch", 200)
       ELSE ppc' = "call" /\ resp' = NoResp
    /\ UNCHANGED << pj, seen, pcall >>
    /\ UNCHANGED regvars
    /\ PredictFrame

\* registry.predict called by code outside the routes
DirectCall ==
    /\ ppc = "idle"
    /\ req' = [ep |-> "direct", csv |-> TRUE, left |-> 1, trained |-> is_trained]
    /\ ppc' = "call"
    /\ resp' = NoResp
    /\ UNCHANGED << pj, seen, pcall >>
    /\ UNCHANGED regvars
    /\ PredictFrame

\* registry.predict raises exc: what the caller makes of it
Raise(c, exc) ==
    /\ pcall' = [c EXCEPT !.out = exc]
    /\ pj' = 1
    /\ CASE req.ep = "direct" ->
              Respond(exc, 0) /\ UNCHANGED req
         [] req.ep = "predict" ->
              \* except Exception as e: raise HTTPException(500, ...)
              Respond("http_error", 500) /\ UNCHANGED req
         [] req.ep = "compare" ->
              Respond("http_error", 500) /\ UNCHANGED req
         [] req.ep = "upload_csv" ->
              \* except Exception: predictions.append({"error": "Invalid row", ...})
              IF req.left > 1
                THEN /\ req' = [req EXCEPT !.left = @ - 1]
                     /\ ppc' = "call"
                     /\ UNCHANGED resp
                ELSE Respond("batch", 200) /\ UNCHANGED req

\* a dict is returned by registry.predict: what the caller does next
Return(c) ==
    /\ pcall' = [c EXCEPT !.out = "dict"]
    \* only /predict goes on to generate_14day_forecast, which draws its noise
    /\ rng' = IF req.ep = "predict" THEN RngAfterForecast(rng) ELSE rng
    /\ pj' = 1
    /\ CASE req.ep = "direct" ->
              Respond("dict", 0) /\ UNCHANGED req
         [] req.ep = "predict" ->
              \* disease_risks, recommendations, forecast -> PredictionResponse
              Respond("report", 200) /\ UNCHANGED req
         [] req.ep \in {"compare", "upload_csv"} ->
              IF req.left > 1
                THEN /\ req' = [req EXCEPT !.left = @ - 1]
                     /\ ppc' = "call"
                     /\ UNCHANGED resp
                ELSE /\ Respond(IF req.ep = "compare" THEN "comparison" ELSE "batch", 200)
                     /\ UNCHANGED req

\* predict(): entry and the is_trained guard
PredictEnter ==
    /\ ppc = "call"
    /\ seen' = NoSeen
    /\ LET c == [trained |-> is_trained, overlap |-> tpc # "idle", out |-> "none"] IN
       IF PredictNotReady
         THEN Raise(c, "RuntimeError")
         ELSE /\ pcall' = c
              /\ ppc' = "transform"
              /\ pj' = 1
              /\ UNCHANGED << req, resp >>
    /\ UNCHANGED regvars
    /\ PredictFrame

\* fit_transform in the place of transform: the scaler is fitted again
ScalerFitTransform(sc) == [raises |-> FALSE, scaler |-> sc + 1]

\* StandardScaler.transform: raises on an unfitted scaler, never refits it
ScalerTransform(sc) == [raises |-> sc = 0, scaler |-> sc]

\* X_scaled = self.scaler.transform(X_raw)
Transform ==
    /\ ppc = "transform"
    /\ LET t == ScalerTransform(scaler) IN
       /\ scaler' = t.scaler
       /\ IF t.raises
            THEN Raise(pcall, "NotFittedError") /\ UNCHANGED seen
            ELSE /\ seen' = [seen EXCEPT !.scaler = scaler]
                 /\ ppc' = "clf_predict"
                 /\ UNCHANGED << pj, req, pcall, resp >>
    /\ UNCHANGED << is_trained, overall_clf, disease_regs, training_metrics >>
    /\ PredictFrame

\* the exception a call on self.overall_clf raises, "" when it returns
ClfError(clf) ==
    IF clf.run = 0 THEN "AttributeError"
    ELSE IF ~clf.fitted THEN "NotFittedError"
    ELSE ""

\* overall_label_idx = int(self.overall_clf.predict(X_scaled)[0])
ClfPredict ==
    /\ ppc = "clf_predict"
    /\ IF ClfError(overall_clf) # ""
         THEN Raise(pcall, ClfError(overall_clf)) /\ UNCHANGED seen
         ELSE /\ seen' = [seen EXCEPT !.clf = overall_clf.run]
              /\ ppc' = "clf_proba"
              /\ UNCHANGED << pj, req, pcall, resp >>
    /\ UNCHANGED regvars
    /\ PredictFrame

\* overall_proba = self.overall_clf.predict_proba(X_scaled)[0]
ClfProba ==
    /\ ppc = "clf_proba"
    /\ IF ClfError(overall_clf) # ""
         THEN Raise(pcall, ClfError(overall_clf)) /\ UNCHANGED seen
         ELSE /\ seen' = [seen EXCEPT !.proba = overall_clf.run]
              /\ ppc' = "regs"
              /\ pj' = 1
              /\ UNCHANGED << req, pcall, resp >>
    /\ UNCHANGED regvars
    /\ PredictFrame

\* raw = float(self.disease_regs[target].predict(X_scaled)[0])
RegPredict ==
    /\ ppc = "regs"
    /\ pj <= NTargets
    /\ LET target == DISEASE_TARGETS[pj] IN
       IF disease_regs[target] = 0
         THEN Raise(pcall, "KeyError") /\ UNCHANGED seen
         ELSE /\ seen' = [seen EXCEPT !.regs = @ \cup {disease_regs[target]}]
              /\ pj' = pj + 1
              /\ UNCHANGED << ppc, req, pcall, resp >>
    /\ UNCHANGED regvars
    /\ PredictFrame

\* return {"overall_score": ..., "disease_scores": ...}
PredictReturn ==
    /\ ppc = "regs"
    /\ pj > NTargets
    /\ Return(pcall)
    /\ UNCHANGED seen
    /\ UNCHANGED regvars
    /\ UNCHANGED << tpc, ti, runs, last, everFailed, df, input, output >>

\* the caller is done with the response
Reset ==
    /\ ppc = "done"
    /\ ppc' = "idle"
    /\ pj' = 1 /\ req' = NoReq /\ seen' = NoSeen /\ pcall' = NoCall /\ resp' = NoResp
    /\ UNCHANGED regvars
    /\ PredictFrame

Predict ==
    \/ PredictEnter
    \/ Transform
    \/ ClfPredict
    \/ ClfProba
    \/ RegPredict
    \/ PredictReturn

Request ==
    \/ \E ep \in Endpoints \ {"direct"}, csv \in BOOLEAN, rows \in 0..MaxRows :
          RouteEnter(ep, csv, rows)
    \/ DirectCall
    \/ Reset

Next == Train \/ Predict \/ Request

Spec == Init /\ [][Next]_vars

\* ------------------------------------------------- registry properties
Routes == {"predict", "compare", "upload_csv", "model_metrics"}

InsidePredict == ppc \in {"transform", "clf_predict", "clf_proba", "regs"}

InternalErrors == {"NotFittedError", "AttributeError", "KeyError"}

\* every component was fitted by training run r
FittedBy(r) ==
    /\ scaler = r
    /\ overall_clf = [run |-> r, fitted |-> TRUE]
    /\ \A t \in Targets : disease_regs[t] = r

\* the components a predict call used all come from one training run
OneRun(s) ==
    /\ s.clf = s.scaler
    /\ s.proba = s.scaler
    /\ s.regs = {s.scaler}

\* C1: a predict call that finds is_trained false never gets past its guard:
\* it raises the not-ready RuntimeError and returns no dict, whatever the
\* registry holds (never trained, first training running, first training failed).
C1_NotReadyRaises ==
    /\ InsidePredict => pcall.trained
    /\ (pcall.out # "none" /\ ~pcall.trained) => pcall.out = "RuntimeError"
    /\ resp.kind \in {"dict", "report", "comparison"} => pcall.trained

\* C1 witness: predict was called after the first training failed and raised
C1_Witness ==
    /\ pcall.out = "RuntimeError"
    /\ last = "failed"
    /\ ~is_trained

\* C2 (as claimed): when no training is running and is_trained is true, the
\* latest train attempt succeeded and fitted the scaler, the classifier and all
\* seven regressors.
C2_TrainedMeansLatestRunFitted ==
    (is_trained /\ tpc = "idle") => (last = "ok" /\ FittedBy(runs))

\* C3 (as claimed): a predict call that returns, made while no train() was
\* running, used a scaler, a classifier and regressors of one training run.
C3_PredictUsesOneRun ==
    (pcall.out = "dict" /\ ~pcall.overlap) => OneRun(seen)

\* C4 (as claimed): while no fit has ever failed, a predict call that returns,
\* also one that ran during a retrain, saw the complete fitted state of one
\* training run.
C4_NoHalfUpdatedRegistry ==
    (pcall.out = "dict" /\ ~everFailed) => OneRun(seen)

\* C5: no step of a request or of predict(), returning or raising, changes
\* is_trained, the scaler, the classifier, the regressors or training_metrics.
C5_PredictLeavesRegistry ==
    [][(Predict \/ Request) => UNCHANGED regvars]_vars

\* C5 witness: predict raised an internal error on a registry marked trained
C5_Witness ==
    /\ pcall.out \in InternalErrors
    /\ pcall.trained
    /\ ppc = "done"

\* C6 (as claimed): a route entered while is_trained is false answers 503.
C6_RoutesAnswer503 ==
    (resp.kind # "none" /\ req.ep \in Routes /\ ~req.trained) => resp.status = 503

\* C6 (amended): a route entered while is_trained is false answers at once,
\* with 400 when it is /upload/csv and the file name does not end in .csv, and
\* with 503 otherwise; it never calls predict and never answers with a report.
C6_RoutesAnswer503UnlessBadName ==
    (req.ep \in Routes /\ ~req.trained) =>
        /\ ppc = "done"
        /\ resp.kind = "http_error"
        /\ resp.status = (IF req.ep = "upload_csv" /\ ~req.csv THEN 400 ELSE 503)

\* C6 witness: /compare answered 503 while the first training was running
C6_Witness ==
    /\ req.ep = "compare"
    /\ resp.status = 503
    /\ last = "running"

\* ------------------------------------------------------ exact numbers
\* A float is modelled by the rational n/d (d > 0) it stands for.
R(n, d) == [n |-> n, d |-> d]

LT(a, b) == a.n * b.d < b.n * a.d

LE(a, b) == a.n * b.d <= b.n * a.d

EQ(a, b) == a.n * b.d = b.n * a.d

Add(a, b) == R(a.n * b.d + b.n * a.d, a.d * b.d)

Mul(a, b) == R(a.n * b.n, a.d * b.d)

\* Python's max(a, b) and min(a, b)
max(a, b) == IF LT(a, b) THEN b ELSE a

min(a, b) == IF LT(b, a) THEN b ELSE a

\* round(x, 1) for x >= 0: the nearest multiple of 0.1.  A value half-way
\* between two multiples has no exact float, so either neighbour can come out.
round1(x) ==
    LET c == (10 * x.n) \div x.d
        r == 10 * x.n - c * x.d
    IN  IF 2 * r < x.d THEN {R(c, 10)}
        ELSE IF 2 * r > x.d THEN {R(c + 1, 10)}
        ELSE {R(c, 10), R(c + 1, 10)}

\* the larger (up) or the smaller member of the set a rounding can give
Pick(S, up) ==
    IF up THEN CHOOSE v \in S : \A w \in S : LE(w, v)
    ELSE CHOOSE v \in S : \A w \in S : LE(v, w)

RECURSIVE GCD(_, _)
GCD(a, b) == IF b = 0 THEN a ELSE GCD(b, a % b)

\* the same number in lowest terms
Norm(x) ==
    LET g == GCD(IF x.n < 0 THEN 0 - x.n ELSE x.n, x.d)
    IN  R(x.n \div g, x.d \div g)

Plus(a, b) == Norm(Add(a, b))

Times(a, b) == Norm(Mul(a, b))

Minus(a, b) == Plus(a, R(0 - b.n, b.d))

RECURSIVE Sum(_)
Sum(terms) == IF terms = << >> THEN R(0, 1) ELSE Plus(Head(terms), Sum(Tail(terms)))

\* round(x, digits) with p = 10^digits; either neighbour on a tie
round_to(x, p) ==
    LET c == (p * x.n) \div x.d
        r == p * x.n - c * x.d
    IN  IF 2 * r < x.d THEN {R(c, p)}
        ELSE IF 2 * r > x.d THEN {R(c + 1, p)}
        ELSE {R(c, p), R(c + 1, p)}

\* ------------------------------------------------------------ labelling
LABELS == << "Low", "Moderate", "High", "Critical" >>

\* thresholds compared with <= : a boundary score falls in the lower band
score_to_label_le(score) ==
    IF LE(score, R(25, 1)) THEN "Low"
    ELSE IF LE(score, R(50, 1)) THEN "Moderate"
    ELSE IF LE(score, R(75, 1)) THEN "High"
    ELSE "Critical"

\* score_to_label(score)
score_to_label(score) ==
    IF LT(score, R(25, 1)) THEN "Low"
    ELSE IF LT(score, R(50, 1)) THEN "Moderate"
    ELSE IF LT(score, R(75, 1)) THEN "High"
    ELSE "Critical"

\* the second threshold mistyped as 0.05
to_label_typo(score) ==
    IF LT(score, R(25, 100)) THEN 0
    ELSE IF LT(score, R(5, 100)) THEN 1
    ELSE IF LT(score, R(75, 100)) THEN 2
    ELSE 3

\* generate_training_data.to_label(score)
to_label(score) ==
    IF LT(score, R(25, 100)) THEN 0
    ELSE IF LT(score, R(50, 100)) THEN 1
    ELSE IF LT(score, R(75, 100)) THEN 2
    ELSE 3

\* ------------------------------------------------- the scores of predict()
\* the class index divided by the number of classes
overall_score_by_four(idx, conf) ==
    round1(Add(Mul(R(idx, 4), R(75, 1)), Mul(conf, R(25, 1))))

\* (overall_label_idx / 3) * 75 + overall_confidence * 25, rounded to 1 decimal
overall_score(idx, conf) ==
    round1(Add(Mul(R(idx, 3), R(75, 1)), Mul(conf, R(25, 1))))

\* overall_label = LABELS[overall_label_idx]   (Python indexes from 0)
overall_label(idx) == LABELS[idx + 1]

\* a clamp that forgets the upper bound
clamp_lower_only(raw) == max(R(0, 1), raw)

\* min(1.0, max(0.0, raw))
clamp01(raw) == min(R(1, 1), max(R(0, 1), raw))

\* round(min(1.0, max(0.0, raw)) * 100, 1)
disease_score(raw) == round1(Mul(clamp01(raw), R(100, 1)))

\* the raw outputs of the classifier and of the seven regressors for one reading
RawGrid == (0 - RawDen) .. (2 * RawDen)

ModelOutputs ==
    { [fn |-> "predict", idx |-> i, conf |-> R(k, ConfDen),
       raw |-> [t \in Targets |->
                  LET j == CHOOSE x \in 1..NTargets : DISEASE_TARGETS[x] = t
                  IN  R(((r + j * RawDen) % (3 * RawDen + 1)) - RawDen, RawDen)]] :
        i \in 0..3, k \in 0..ConfDen, r \in 0..(3 * RawDen) }

\* a registry as one successful train() leaves it
TrainedOnce ==
    /\ is_trained = TRUE
    /\ scaler = 1
    /\ overall_clf = [run |-> 1, fitted |-> TRUE]
    /\ disease_regs = [t \in Targets |-> 1]
    /\ training_metrics = [k \in MetricKeys |-> 1]
    /\ tpc = "idle" /\ ti = 1 /\ runs = 1 /\ last = "ok" /\ everFailed = FALSE
    /\ df = generate_training_data(EntropyRng, N_SAMPLES)
    /\ ppc = "idle" /\ pj = 1 /\ req = NoReq /\ seen = NoSeen
    /\ pcall = NoCall /\ resp = NoResp
    /\ rng = RngAfterGenerate(EntropyRng, N_SAMPLES)

ScoreInit ==
    /\ TrainedOnce
    /\ input \in ModelOutputs
    /\ output = NoValue

\* predict() from the estimators' outputs to the returned dict
PredictScores ==
    /\ ~PredictNotReady
    /\ input.fn = "predict"
    /\ output = NoValue
    /\ \E os \in overall_score(input.idx, input.conf) :
       \E ups \in SUBSET { t \in Targets : Cardinality(disease_score(input.raw[t])) > 1 } :
          output' = [fn |-> "predict",
                     overall_score |-> os,
                     overall_label |-> overall_label(input.idx),
                     overall_confidence |-> input.conf,
                     disease_scores |->
                        [t \in Targets |-> Pick(disease_score(input.raw[t]), t \in ups)]]
    /\ UNCHANGED << input, rng >>
    /\ UNCHANGED regvars
    /\ UNCHANGED << tpc, ti, runs, last, everFailed, df >>
    /\ UNCHANGED pvars

\* a confidence that takes the score for a fraction
disease_confidence_unscaled(score) ==
    round_to(Plus(R(78, 100), Times(score, R(15, 100))), 1000)

\* round(0.78 + (score / 100) * 0.15, 3)
disease_confidence(score) ==
    round_to(Plus(R(78, 100), Times(Times(score, R(1, 100)), R(15, 100))), 1000)

\* /predict builds the confidences of its report from what predict() returned:
\* overall_confidence=round(model_out["overall_confidence"], 3) and one
\* confidence per disease entry; up tells which way a tie is rounded
BuildReport ==
    /\ output.fn = "predict"
    /\ \E up \in BOOLEAN :
          output' = [fn |-> "report",
                     overall_confidence |->
                        Pick(round_to(output.overall_confidence, 1000), up),
                     disease_risks |->
                        [t \in Targets |->
                           [risk_score |-> output.disease_scores[t],
                            risk_label |-> score_to_label(output.disease_scores[t]),
                            confidence |->
                               Pick(disease_confidence(output.disease_scores[t]), up)]]]
    /\ UNCHANGED << input, rng >>
    /\ UNCHANGED regvars
    /\ UNCHANGED << tpc, ti, runs, last, everFailed, df >>
    /\ UNCHANGED pvars

ScoreNext == PredictScores \/ BuildReport

SpecScore == ScoreInit /\ [][ScoreNext]_vars

\* C7 (as claimed): the overall label predict returns is score_to_label of
\* the overall score it returns, for every class index and confidence.
C7_OverallLabelIsScoreToLabel ==
    output.fn = "predict" =>
        output.overall_label = score_to_label(output.overall_score)

InRange(x, lo, hi) == LE(R(lo, 1), x) /\ LE(x, R(hi, 1))

\* C8: the overall score and each of the seven disease scores predict returns
\* lie in [0,100], for every class index, confidence and raw regressor value.
C8_ScoresInRange ==
    output.fn = "predict" =>
        /\ InRange(output.overall_score, 0, 100)
        /\ \A t \in Targets : InRange(output.disease_scores[t], 0, 100)

\* C8 witness: predict returned for a regressor output above 1 and one below 0,
\* with the top class at confidence 1
C8_Witness ==
    /\ output.fn = "predict"
    /\ input.idx = 3 /\ EQ(input.conf, R(1, 1))
    /\ EQ(output.overall_score, R(100, 1))
    /\ LT(R(1, 1), input.raw["vector_score"])
    /\ EQ(output.disease_scores["vector_score"], R(100, 1))
    /\ \E t \in Targets : /\ LT(input.raw[t], R(0, 1))
                          /\ EQ(output.disease_scores[t], R(0, 1))

\* ------------------------------------------- the two labelling functions
ScoreGrid == { R(k, ScoreDen) : k \in (0 - 2 * ScoreDen) .. (MaxScore * ScoreDen) }

UnitGrid == { R(k, UnitDen) : k \in 0 .. UnitDen }

LabelInit ==
    /\ Fresh
    /\ input \in { [fn |-> "score_to_label", score |-> x] : x \in ScoreGrid }
                    \cup { [fn |-> "to_label", score |-> x] : x \in UnitGrid }
    /\ output = NoValue

LabelFrame ==
    /\ UNCHANGED regvars
    /\ UNCHANGED << tpc, ti, runs, last, everFailed, df >>
    /\ UNCHANGED pvars
    /\ UNCHANGED rng

\* score_to_label is applied to a score
ApplyScoreToLabel ==
    /\ input.fn = "score_to_label"
    /\ output = NoValue
    /\ output' = [fn |-> "score_to_label", label |-> score_to_label(input.score)]
    /\ UNCHANGED input
    /\ LabelFrame

\* score_to_label is applied to another score
Rescore(x) ==
    /\ output.fn = "score_to_label"
    /\ input' = [fn |-> "score_to_label", score |-> x]
    /\ output' = [fn |-> "score_to_label", label |-> score_to_label(x)]
    /\ LabelFrame

\* a training score is labelled by to_label, and 100 times it by score_to_label
ApplyToLabel ==
    /\ input.fn = "to_label"
    /\ output = NoValue
    /\ output' = [fn |-> "to_label",
                  idx |-> to_label(input.score),
                  label |-> score_to_label(Mul(R(100, 1), input.score))]
    /\ UNCHANGED input
    /\ LabelFrame

LabelNext ==
    \/ ApplyScoreToLabel
    \/ \E x \in ScoreGrid : Rescore(x)
    \/ ApplyToLabel

SpecLabel == LabelInit /\ [][LabelNext]_vars

\* position of a label in Low < Moderate < High < Critical
Rank(label) == CHOOSE i \in 1..4 : LABELS[i] = label

\* C9: score_to_label gives Low below 25, Moderate on [25,50), High on [50,75)
\* and Critical from 75 on, and a larger score never gets a lower label.
C9_ScoreToLabelBands ==
    /\ [](output.fn = "score_to_label" =>
            /\ LT(input.score, R(25, 1)) => output.label = "Low"
            /\ (LE(R(25, 1), input.score) /\ LT(input.score, R(50, 1)))
                  => output.label = "Moderate"
            /\ (LE(R(50, 1), input.score) /\ LT(input.score, R(75, 1)))
                  => output.label = "High"
            /\ LE(R(75, 1), input.score) => output.label = "Critical")
    /\ [][(output.fn = "score_to_label" /\ LE(input.score, input'.score))
            => Rank(output.label) <= Rank(output'.label)]_vars

\* C9 witness: the boundary score 25 was labelled Moderate
C9_Witness ==
    /\ output.fn = "score_to_label"
    /\ EQ(input.score, R(25, 1))
    /\ output.label = "Moderate"

\* C10: the class to_label gives a training score s in [0,1] is the index in
\* LABELS of the label score_to_label gives 100*s.
C10_TrainingAndInferenceLabelsAgree ==
    output.fn = "to_label" => LABELS[output.idx + 1] = output.label

\* C10 witness: the training score 0.25, exactly on a threshold, got class 1
C10_Witness ==
    /\ output.fn = "to_label"
    /\ EQ(input.score, R(25, 100))
    /\ output.idx = 1
    /\ output.label = "Moderate"

\* ---------------------------------------------------- the advice of a report
\* DISEASE_META[key]["name"]
DISEASE_META ==
    [t \in Targets |->
        CASE t = "vector_score"      -> "Vector-Borne"
          [] t = "water_score"       -> "Water-Borne"
          [] t = "respiratory_score" -> "Respiratory"
          [] t = "heat_score"        -> "Heat-Related"
          [] t = "nutrition_score"   -> "Nutritional"
          [] t = "mental_score"      -> "Mental Health"
          [] t = "skin_score"        -> "Skin & Eye"]

\* position of a key in the dict predict() builds, which follows DISEASE_TARGETS
KeyIndex(t) == CHOOSE i \in 1..NTargets : DISEASE_TARGETS[i] = t

\* an ascending sort read backwards: keys of equal score come out in the
\* reverse of the dict's order
sorted_risks_reversed(disease_scores) ==
    LET Before(u, t) ==
            \/ LT(disease_scores[t], disease_scores[u])
            \/ (EQ(disease_scores[t], disease_scores[u]) /\ KeyIndex(u) > KeyIndex(t))
        Place(t) == 1 + Cardinality({ u \in Targets : Before(u, t) })
    IN  [i \in 1..NTargets |-> CHOOSE t \in Targets : Place(t) = i]

\* sorted(disease_scores.items(), key=lambda x: x[1], reverse=True): a stable
\* sort, so that keys of equal score keep the order of the dict
sorted_risks(disease_scores) ==
    LET Before(u, t) ==
            \/ LT(disease_scores[t], disease_scores[u])
            \/ (EQ(disease_scores[t], disease_scores[u]) /\ KeyIndex(u) < KeyIndex(t))
        Place(t) == 1 + Cardinality({ u \in Targets : Before(u, t) })
    IN  [i \in 1..NTargets |-> CHOOSE t \in Targets : Place(t) = i]

\* a category at the threshold itself is skipped
reaches_above(score) == LT(R(40, 1), score)

\* the categories the loop does not skip:  if score < 40: continue
reaches(score) == ~LT(score, R(40, 1))

\* the action list of a category; the reading's numbers that the texts of some
\* actions quote are left out, the wording rainfall decides is kept
actions(key, climate) ==
    CASE key = "vector_score" ->
            << "Eliminate standing water",
               "Use DEET-based mosquito repellent",
               "Sleep under insecticide nets",
               IF climate.rainfall > 150
                  THEN "Visit nearest PHC for malaria prophylaxis"
                  ELSE "Visit nearest PHC for fever screening",
               "Wear full-sleeve clothing" >>
      [] key = "water_score" ->
            << "Boil drinking water",
               "Avoid raw street food",
               "Wash hands with soap",
               "Report contaminated water sources",
               "Oral Rehydration Solution ready" >>
      [] key = "respiratory_score" ->
            << "Wear N95 mask outdoors",
               "Avoid outdoor exercise during peak pollution",
               "Keep bronchodilator inhalers accessible",
               "Use indoor air purifiers",
               "Monitor AQI before outings" >>
      [] key = "heat_score" ->
            << "Drink 3-4 litres of water per day",
               "Avoid outdoor exposure 11 AM - 4 PM",
               "Wear light-coloured loose cotton clothing",
               "Know heatstroke signs",
               "Set up cooling centres" >>
      [] key = "skin_score" ->
            << "Apply SPF 50+ sunscreen",
               "Wear UV-blocking sunglasses",
               "Use umbrella or wide-brim hat",
               "Schedule annual eye check-up" >>
      [] key = "nutrition_score" ->
            << "Ensure diversified diet",
               "Monitor weight and growth parameters",
               "Consult ICDS Anganwadi",
               "Store food safely" >>
      [] key = "mental_score" ->
            << "Maintain social connections",
               "Limit news consumption",
               "Ensure adequate sleep",
               "Contact iCall" >>

\* the last four actions instead of the first four
last4(acts) ==
    IF Len(acts) <= 4 THEN acts
    ELSE SubSeq(acts, Len(acts) - 3, Len(acts))

\* actions[:4]
top4(acts) ==
    IF Len(acts) <= 4 THEN acts ELSE SubSeq(acts, 1, 4)

\* the top tier entered at 70
urgency_from_seventy(score) ==
    IF LE(R(70, 1), score) THEN "critical"
    ELSE IF LE(R(50, 1), score) THEN "warning"
    ELSE "info"

\* "critical" if score >= 75 else "warning" if score >= 50 else "info"
urgency(score) ==
    IF LE(R(75, 1), score) THEN "critical"
    ELSE IF LE(R(50, 1), score) THEN "warning"
    ELSE "info"

\* the block appended for one category
rec_block(key, score, climate) ==
    [disease    |-> DISEASE_META[key],
     risk_score |-> score,
     severity   |-> score_to_label(score),
     type       |-> urgency(score),
     actions    |-> top4(actions(key, climate))]

\* the block appended when the loop appended none
GENERAL_HEALTH ==
    [disease    |-> "General Health",
     risk_score |-> R(10, 1),
     severity   |-> "Low",
     type       |-> "success",
     actions    |-> << "Continue regular handwashing hygiene",
                       "Stay hydrated",
                       "Monitor local district health bulletins",
                       "Schedule annual comprehensive health checkup" >>]

\* generate_recommendations(disease_scores, climate)
generate_recommendations(disease_scores, climate) ==
    LET order == sorted_risks(disease_scores)
        kept  == SelectSeq(order, LAMBDA t : reaches(disease_scores[t]))
        recs  == [i \in 1..Len(kept) |->
                    rec_block(kept[i], disease_scores[kept[i]], climate)]
    IN  IF recs = << >> THEN << GENERAL_HEALTH >> ELSE recs

\* a rule that also triggers at its threshold
exceeds_or_equals(value, threshold) == value >= threshold

\* one rule of identify_contributing_factors:  if climate.<field> > <threshold>
exceeds(value, threshold) == value > threshold

\* the factor a rule appends when it triggers, else nothing
Rule(value, threshold, factor) ==
    IF exceeds(value, threshold) THEN << factor >> ELSE << >>

\* identify_contributing_factors(climate, disease_key)
identify_contributing_factors(climate, disease_key) ==
    LET factors ==
          CASE disease_key = "vector_score" ->
                 Rule(climate.humidity, 75, "High humidity")
                 \o Rule(climate.temperature, 28, "Warm temperature")
                 \o Rule(climate.rainfall, 120, "Heavy rainfall")
            [] disease_key = "water_score" ->
                 Rule(climate.rainfall, 150, "Excessive rainfall")
                 \o Rule(climate.temperature, 30, "High temperature")
            [] disease_key = "respiratory_score" ->
                 Rule(climate.aqi, 100, "Poor air quality")
                 \o Rule(climate.uv_index, 7, "High UV promotes ozone")
            [] disease_key = "heat_score" ->
                 Rule(climate.temperature, 35, "Extreme temperature")
                 \o Rule(climate.uv_index, 8, "Intense UV")
            [] disease_key = "skin_score" ->
                 Rule(climate.uv_index, 7, "High UV index")
                 \o Rule(climate.temperature, 32, "Heat promotes skin conditions")
            [] OTHER -> << >>
    IN  IF factors = << >>
        THEN << "Multiple moderate climate stressors present" >>
        ELSE factors

\* -------------------------------------------------- the forecast of a report
\* the draws of np.random.normal(0, 4) range over multiples of 1/NoiseDen
\* between -MaxNoise and MaxNoise
NoiseCount == 2 * MaxNoise * NoiseDen + 1

\* a seed whose stream gives the noise 0 at every draw
QuietSeed == NoiseCount + MaxNoise * NoiseDen

\* np.random.normal(0, 4) in the generator state r: the stream is a function of
\* the seed and of the number of draws made since.  The streams of the seeds
\* below NoiseCount run through the values, those of the seeds from NoiseCount
\* on repeat one value.
normal(r) ==
    IF r.seed < NoiseCount
    THEN R(((r.seed + 5 * r.pos) % NoiseCount) - MaxNoise * NoiseDen, NoiseDen)
    ELSE R((r.seed % NoiseCount) - MaxNoise * NoiseDen, NoiseDen)

\* a score kept below 100 only
bound_score_top_only(x) == min(R(100, 1), x)

\* min(100, max(5, base_score + variation))
bound_score(x) == min(R(100, 1), max(R(5, 1), x))

\* the upward drift also at 60 itself
drift_from_sixty(day, base_score) ==
    IF LE(R(60, 1), base_score) THEN R(3 * day, 10) ELSE R(0 - 2 * day, 10)

\* day * 0.3 if base_score > 60 else -day * 0.2
drift(day, base_score) ==
    IF LT(R(60, 1), base_score) THEN R(3 * day, 10) ELSE R(0 - 2 * day, 10)

\* generate_14day_forecast(climate, base_score) called in generator state r;
\* up tells which way a value half-way between two tenths is rounded.  The
\* calendar date of an entry (now + day) is left out.
generate_14day_forecast(climate, base_score, r, up) ==
    [i \in 1..FORECAST_DAYS |->
        LET day         == i
            variation   == Add(normal(Advance(r, i - 1)), drift(day, base_score))
            daily_score == Pick(round1(bound_score(Add(base_score, variation))), up)
        IN  [day        |-> day,
             risk_score |-> daily_score,
             risk_label |-> score_to_label(daily_score)]]

\* ------------------------------------------ the report functions, on their own
\* a reading; the fields no report function looks at are left out
Reading(t, h, rf, a, uv) ==
    [temperature |-> t, humidity |-> h, rainfall |-> rf, aqi |-> a, uv_index |-> uv]

\* readings on both sides of every threshold of the rules
ClimateGrid ==
    { Reading(t, h, rf, a, uv) :
        t \in {28, 29, 30, 31, 32, 33, 35, 36}, h \in {75, 76},
        rf \in {120, 121, 150, 151}, a \in {100, 101}, uv \in {7, 8, 9} }

\* score levels on both sides of 40, 50 and 75, three at a time
LevelSets ==
    { { R(40 * ScoreDen - 1, ScoreDen), R(40, 1), R(75, 1) },
      { R(50 * ScoreDen - 1, ScoreDen), R(50, 1), R(75 * ScoreDen - 1, ScoreDen) },
      { R(0, 1), R(25, 1), R(40 * ScoreDen - 1, ScoreDen) },
      { R(10, 1), R(60, 1), R(100, 1) } }

ScoreDicts == UNION { [Targets -> L] : L \in LevelSets }

\* base scores: the whole points and some values between them
BaseGrid ==
    { R(k, 1) : k \in (0 - 2) .. MaxScore }
    \cup { R(49, 10), R(119, 2), R(601, 10), R(121, 2), R(199, 2), R(999, 10) }

ReportInputs ==
    { [fn |-> "generate_recommendations", disease_scores |-> ds,
       climate |-> Reading(30, 70, rf, 80, 5)] :
          ds \in ScoreDicts, rf \in {150, 151} }
    \cup { [fn |-> "identify_contributing_factors", climate |-> c, disease_key |-> t] :
              c \in ClimateGrid, t \in Targets }
    \cup { [fn |-> "generate_14day_forecast", climate |-> Reading(30, 70, 100, 80, 5),
            base_score |-> b] : b \in BaseGrid }

ReportInit ==
    /\ RegistryInit
    /\ tpc = "idle" /\ ti = 1 /\ runs = 0 /\ last = "none" /\ everFailed = FALSE
    /\ df = NoData
    /\ ppc = "idle" /\ pj = 1 /\ req = NoReq /\ seen = NoSeen
    /\ pcall = NoCall /\ resp = NoResp
    /\ input \in ReportInputs
    /\ rng \in IF input.fn = "generate_14day_forecast"
               THEN { Seeded(s) : s \in (0..(NoiseCount - 1)) \cup {QuietSeed} }
               ELSE { EntropyRng }
    /\ output = NoValue

ReportFrame ==
    /\ UNCHANGED regvars
    /\ UNCHANGED << tpc, ti, runs, last, everFailed, df >>
    /\ UNCHANGED pvars
    /\ UNCHANGED input

Recommend ==
    /\ input.fn = "generate_recommendations"
    /\ output = NoValue
    /\ output' = [fn |-> input.fn,
                  recs |-> generate_recommendations(input.disease_scores, input.climate)]
    /\ UNCHANGED rng
    /\ ReportFrame

Factors ==
    /\ input.fn = "identify_contributing_factors"
    /\ output = NoValue
    /\ output' = [fn |-> input.fn,
                  factors |-> identify_contributing_factors(input.climate,
                                                            input.disease_key)]
    /\ UNCHANGED rng
    /\ ReportFrame

Forecast ==
    /\ input.fn = "generate_14day_forecast"
    /\ output = NoValue
    /\ \E up \in BOOLEAN :
          output' = [fn |-> input.fn,
                     forecast |-> generate_14day_forecast(input.climate,
                                                          input.base_score, rng, up)]
    /\ rng' = Advance(rng, FORECAST_DAYS)
    /\ ReportFrame

ReportNext == Recommend \/ Factors \/ Forecast

SpecReport == ReportInit /\ [][ReportNext]_vars

\* the blocks of a result, as a set of category names
Diseases(recs) == { recs[i].disease : i \in 1..Len(recs) }

\* C11: generate_recommendations returns one block for exactly the categories
\* scoring at least 40 and none for the others; when no category reaches 40 it
\* returns the single "General Health" entry; the result is never empty.
C11_RecommendsFromForty ==
    output.fn = "generate_recommendations" =>
        LET ds   == input.disease_scores
            hot  == { t \in Targets : LE(R(40, 1), ds[t]) }
            recs == output.recs
        IN  /\ Len(recs) >= 1
            /\ hot # {} => /\ Len(recs) = Cardinality(hot)
                           /\ Diseases(recs) = { DISEASE_META[t] : t \in hot }
            /\ hot = {} => /\ Len(recs) = 1
                           /\ recs[1].disease = "General Health"

\* C11 witness: a category scoring exactly 40 got a block, one scoring just
\* below 40 did not
C11_Witness ==
    /\ output.fn = "generate_recommendations"
    /\ EQ(input.disease_scores["vector_score"], R(40, 1))
    /\ LT(input.disease_scores["water_score"], R(40, 1))
    /\ LT(R(39, 1), input.disease_scores["water_score"])
    /\ "Vector-Borne" \in Diseases(output.recs)
    /\ "Water-Borne" \notin Diseases(output.recs)

\* C12: every category block carries the category's score, the severity
\* score_to_label gives that score, the urgency "critical" from 75 on, "warning"
\* from 50 up to 75 and "info" below, and at most 4 actions, which are the
\* first ones of the category's action list in the list's order.
C12_BlockContents ==
    output.fn = "generate_recommendations" =>
        \A i \in 1..Len(output.recs) :
            LET b == output.recs[i]
            IN  b.disease # "General Health" =>
                  \E t \in Targets :
                     LET s   == input.disease_scores[t]
                         cat == actions(t, input.climate)
                     IN  /\ b.disease = DISEASE_META[t]
                         /\ b.risk_score = s
                         /\ b.severity = score_to_label(s)
                         /\ LE(R(75, 1), s) => b.type = "critical"
                         /\ (LE(R(50, 1), s) /\ LT(s, R(75, 1))) => b.type = "warning"
                         /\ LT(s, R(50, 1)) => b.type = "info"
                         /\ Len(b.actions) <= 4
                         /\ Len(b.actions) <= Len(cat)
                         /\ \A j \in 1..Len(b.actions) : b.actions[j] = cat[j]

\* C12 witness: the vector-borne block of a score of exactly 75 under heavy
\* rainfall: Critical, critical, the first four of five actions
C12_Witness ==
    /\ output.fn = "generate_recommendations"
    /\ input.climate.rainfall > 150
    /\ EQ(input.disease_scores["vector_score"], R(75, 1))
    /\ \E i \in 1..Len(output.recs) :
          /\ output.recs[i].disease = "Vector-Borne"
          /\ output.recs[i].severity = "Critical"
          /\ output.recs[i].type = "critical"
          /\ Len(output.recs[i].actions) = 4
          /\ output.recs[i].actions[4] = "Visit nearest PHC for malaria prophylaxis"

\* the rules of a category in the order of the code: the value compared, the
\* threshold and the factor
RuleOrder(c, key) ==
    CASE key = "vector_score" ->
           << << c.humidity, 75, "High humidity" >>,
              << c.temperature, 28, "Warm temperature" >>,
              << c.rainfall, 120, "Heavy rainfall" >> >>
      [] key = "water_score" ->
           << << c.rainfall, 150, "Excessive rainfall" >>,
              << c.temperature, 30, "High temperature" >> >>
      [] key = "respiratory_score" ->
           << << c.aqi, 100, "Poor air quality" >>,
              << c.uv_index, 7, "High UV promotes ozone" >> >>
      [] key = "heat_score" ->
           << << c.temperature, 35, "Extreme temperature" >>,
              << c.uv_index, 8, "Intense UV" >> >>
      [] key = "skin_score" ->
           << << c.uv_index, 7, "High UV index" >>,
              << c.temperature, 32, "Heat promotes skin conditions" >> >>
      [] OTHER -> << >>

\* C13: identify_contributing_factors returns the factors of the rules whose
\* value is strictly above the threshold, in the rule order of the category; it
\* returns the one fallback factor exactly when no rule of the category
\* triggers, so the result is never empty and never mixes the two.
C13_FactorsInRuleOrder ==
    output.fn = "identify_contributing_factors" =>
        LET rules     == RuleOrder(input.climate, input.disease_key)
            triggered == SelectSeq(rules, LAMBDA r : r[1] > r[2])
            fallback  == "Multiple moderate climate stressors present"
            f         == output.factors
        IN  /\ Len(f) >= 1
            /\ triggered # << >> =>
                  /\ Len(f) = Len(triggered)
                  /\ \A i \in 1..Len(f) : f[i] = triggered[i][3]
                  /\ \A i \in 1..Len(f) : f[i] # fallback
            /\ triggered = << >> <=> f = << fallback >>

\* C13 witness: vector_score with humidity at its threshold (no factor) and
\* temperature and rainfall just above theirs (two factors, in that order)
C13_Witness ==
    /\ output.fn = "identify_contributing_factors"
    /\ input.disease_key = "vector_score"
    /\ input.climate.humidity = 75
    /\ input.climate.temperature = 29
    /\ input.climate.rainfall = 121
    /\ output.factors = << "Warm temperature", "Heavy rainfall" >>

\* C14: generate_14day_forecast returns 14 entries, for the days 1..14 in
\* increasing order; whatever the base score and the noise, every entry's score
\* lies in [5,100] and its label is score_to_label of that score.
C14_ForecastEntries ==
    output.fn = "generate_14day_forecast" =>
        /\ Len(output.forecast) = 14
        /\ \A i \in 1..Len(output.forecast) :
              LET e == output.forecast[i]
              IN  /\ e.day = i
                  /\ InRange(e.risk_score, 5, 100)
                  /\ e.risk_label = score_to_label(e.risk_score)

\* C14 witness: a forecast from the base score 5 with a day held at 5 by the
\* clamp and a day above it
C14_Witness ==
    /\ output.fn = "generate_14day_forecast"
    /\ EQ(input.base_score, R(5, 1))
    /\ rng.pos = FORECAST_DAYS
    /\ \E i \in 1..14 : EQ(output.forecast[i].risk_score, R(5, 1))
    /\ \E i \in 1..14 : LT(R(5, 1), output.forecast[i].risk_score)

\* --------------------------------------------------- the training samples
\* w/100 * x : one weighted term of a risk
Term(w, x) == Times(R(w, 100), x)

\* max(0, x - base) / span
Excess(x, base, span) == Times(max(R(0, 1), Minus(x, R(base, 1))), R(1, span))

\* min(1, x / span)
Saturated(x, span) == min(R(1, 1), Times(x, R(1, span)))

\* 1 if month in months else 0.2
InSeason(month, months) == IF month \in months THEN R(1, 1) ELSE R(2, 10)

\* the seven risks of one sample, from its draws d
risks(d) ==
    [t \in Targets |->
       CASE t = "vector_score" ->
              Sum(<< Term(35, Excess(d.humidity, 55, 45)),
                     Term(25, Excess(d.temp, 22, 18)),
                     Term(20, Saturated(d.rainfall, 200)),
                     Term(10, InSeason(d.month, 7..11)),
                     Term(10, d.beta[t]) >>)
         [] t = "water_score" ->
              Sum(<< Term(40, Saturated(d.rainfall, 250)),
                     Term(25, Excess(d.temp, 25, 15)),
                     Term(20, Excess(d.humidity, 60, 40)),
                     Term(15, d.beta[t]) >>)
         [] t = "respiratory_score" ->
              Sum(<< Term(45, Saturated(d.aqi, 200)),
                     Term(25, Times(max(R(0, 1), Minus(R(25, 1), d.temp)), R(1, 20))),
                     Term(15, InSeason(d.month, {11, 12, 1, 2})),
                     Term(15, d.beta[t]) >>)
         [] t = "heat_score" ->
              Sum(<< Term(50, Excess(d.temp, 28, 17)),
                     Term(25, Saturated(d.uv, 10)),
                     Term(15, InSeason(d.month, {4, 5, 6})),
                     Term(10, d.beta[t]) >>)
         [] t = "nutrition_score" ->
              Sum(<< Term(35, max(R(0, 1), Minus(R(1, 1), Times(d.rainfall, R(1, 100))))),
                     Term(30, Excess(d.temp, 30, 15)),
                     Term(20, InSeason(d.month, {3, 4, 5})),
                     Term(15, d.beta[t]) >>)
         [] t = "mental_score" ->
              Sum(<< Term(35, Excess(d.temp, 30, 15)),
                     Term(30, Saturated(d.aqi, 200)),
                     Term(20, Excess(d.humidity, 70, 30)),
                     Term(15, d.beta[t]) >>)
         [] t = "skin_score" ->
              Sum(<< Term(55, Saturated(d.uv, 11)),
                     Term(25, Excess(d.temp, 28, 17)),
                     Term(20, d.beta[t]) >>)]

\* the weights of the overall risk, in hundredths, in the order of the code
OVERALL_WEIGHTS ==
    [t \in Targets |->
       CASE t = "vector_score"      -> 25
         [] t = "water_score"       -> 20
         [] t = "respiratory_score" -> 18
         [] t = "heat_score"        -> 15
         [] t = "nutrition_score"   -> 10
         [] t = "mental_score"      -> 7
         [] t = "skin_score"        -> 5]

\* overall = 0.25 * vector_risk + ... + 0.05 * skin_risk
overall_risk(risk) ==
    Sum(<< Term(OVERALL_WEIGHTS["vector_score"], risk["vector_score"]),
           Term(OVERALL_WEIGHTS["water_score"], risk["water_score"]),
           Term(OVERALL_WEIGHTS["respiratory_score"], risk["respiratory_score"]),
           Term(OVERALL_WEIGHTS["heat_score"], risk["heat_score"]),
           Term(OVERALL_WEIGHTS["nutrition_score"], risk["nutrition_score"]),
           Term(OVERALL_WEIGHTS["mental_score"], risk["mental_score"]),
           Term(OVERALL_WEIGHTS["skin_score"], risk["skin_score"]) >>)

\* a score stored as it was computed
uncapped(x) == x

\* min(1, x) of a stored score
capped(x) == min(R(1, 1), x)

\* the quarters of the year counted from January
season_from_january(month) == ((month - 1) % 12) \div 3

\* season of a training sample:  (month % 12) // 3
season(month) == (month % 12) \div 3

\* the record appended for the draws d; up tells which way a value half-way
\* between two neighbours is rounded
training_sample(d, up) ==
    LET rainfall == max(R(0, 1), d.rainfall)
        aqi      == max(R(0, 1), d.aqi)
        uv       == max(R(1, 1), d.uv)
        e        == [d EXCEPT !.rainfall = rainfall, !.aqi = aqi, !.uv = uv]
        risk     == risks(e)
        overall  == overall_risk(risk)
        Stored(x, p)  == Pick(round_to(x, p), up)
    IN  [temperature   |-> Stored(d.temp, 100),
         humidity      |-> Stored(max(R(0, 1), min(R(100, 1), d.humidity)), 100),
         rainfall      |-> Stored(max(R(0, 1), rainfall), 100),
         aqi           |-> Stored(max(R(0, 1), aqi), 100),
         uv_index      |-> Stored(max(R(1, 1), uv), 100),
         month         |-> d.month,
         season        |-> season(d.month),
         scores        |-> [t \in Targets |-> Stored(capped(risk[t]), 10000)],
         overall_score |-> Stored(capped(overall), 10000),
         overall_label |-> to_label(overall)]

\* month = climate.month if climate.month else datetime.now().month
\* (None and 0 are both false)
predict_month(cm, now) == IF cm.given /\ cm.value # 0 THEN cm.value ELSE now

\* season = (month % 12) // 3 in predict
predict_season(month) == (month % 12) \div 3

\* the month a reading carries: none, or an integer
ReadingMonths ==
    { [given |-> FALSE, value |-> 0] }
    \cup { [given |-> TRUE, value |-> m] : m \in (0 - MaxMonth) .. MaxMonth }

\* the draws of one sample: every month, and values of the other draws inside
\* and outside the ranges the risks are scaled for
SampleDraws ==
    { [fn |-> "training_sample", month |-> m, temp |-> R(t, 1), humidity |-> R(h, 1),
       rainfall |-> R(rf, 1), aqi |-> R(a, 1), uv |-> R(u, 1),
       beta |-> [x \in Targets |-> R(b, 2)]] :
        m \in 1..12, t \in {10, 28, 45}, h \in {40, 100, 118},
        rf \in {0, 50, 250, 1200},
        a \in {0 - 10, 100, 300}, u \in {0, 5, 12}, b \in 0..2 }

DataInputs ==
    SampleDraws
    \cup { [fn |-> "season", month |-> cm, now |-> now] :
              cm \in ReadingMonths, now \in 1..12 }

DataInit ==
    /\ RegistryInit
    /\ tpc = "idle" /\ ti = 1 /\ runs = 0 /\ last = "none" /\ everFailed = FALSE
    /\ df = NoData
    /\ ppc = "idle" /\ pj = 1 /\ req = NoReq /\ seen = NoSeen
    /\ pcall = NoCall /\ resp = NoResp
    /\ input \in DataInputs
    /\ rng = EntropyRng
    /\ output = NoValue

DataFrame ==
    /\ UNCHANGED regvars
    /\ UNCHANGED << tpc, ti, runs, last, everFailed, df >>
    /\ UNCHANGED pvars

\* the body of the loop of generate_training_data, for one sample's draws
Synthesize ==
    /\ input.fn = "training_sample"
    /\ output = NoValue
    /\ \E up \in BOOLEAN :
          output' = [fn |-> input.fn, sample |-> training_sample(input, up)]
    /\ UNCHANGED << input, rng >>
    /\ DataFrame

\* the month and season features predict() builds for a reading, beside the
\* season a training sample of that month gets
Seasons ==
    /\ input.fn = "season"
    /\ output = NoValue
    /\ LET month == predict_month(input.month, input.now)
       IN  output' = [fn |-> input.fn,
                      month |-> month,
                      season |-> predict_season(month),
                      trained_season |-> season(month)]
    /\ UNCHANGED << input, rng >>
    /\ DataFrame

DataNext == Synthesize \/ Seasons

SpecData == DataInit /\ [][DataNext]_vars

\* ------------------------------------- the synthesizer and the generator
CallerSeeds == (1..MaxSeed) \cup {SEED}

SeedInit ==
    /\ Fresh
    /\ input = NoValue /\ output = NoValue

\* some caller runs np.random.seed(s)
Seed(s) ==
    /\ input.fn \in {"none", "generate_training_data"}
    /\ rng' = Seeded(s)
    /\ UNCHANGED << input, output >>
    /\ DataFrame

\* some caller draws from np.random
Draw ==
    /\ input.fn \in {"none", "generate_training_data"}
    /\ rng.pos % DRAWS_PER_SAMPLE < MaxDraws
    /\ rng' = Advance(rng, 1)
    /\ UNCHANGED << input, output >>
    /\ DataFrame

\* generate_training_data(n) is called; input keeps the generator state it was
\* called in, output counts the calls made so far
Generate(n) ==
    /\ input.fn \in {"none", "generate_training_data"}
    /\ input' = [fn |-> "generate_training_data", n_samples |-> n,
                 seed |-> rng.seed, pos |-> rng.pos]
    /\ output' = [fn |-> "generate_training_data",
                  data |-> generate_training_data(rng, n),
                  calls |-> IF output.fn = "none" THEN 1 ELSE 2]
    /\ rng' = RngAfterGenerate(rng, n)
    /\ DataFrame

SeedNext ==
    \/ \E s \in CallerSeeds : Seed(s)
    \/ Draw
    \/ \E n \in 1..MaxN : Generate(n)

SpecSeed == SeedInit /\ [][SeedNext]_vars

\* a stored score in units of 0.0001
Units(x) == (x.n * 10000) \div x.d

\* C15 (as claimed): in every training sample the stored overall score is the
\* weighted sum (0.25, 0.20, 0.18, 0.15, 0.10, 0.07, 0.05) of the seven stored
\* scores, clamped to [0,1] (up to the rounding of the stored values to 4
\* decimals), and the stored label is the class the thresholds 0.25, 0.50 and
\* 0.75 give that stored overall score.
C15_OverallFromStoredScores ==
    output.fn = "training_sample" =>
        LET s       == output.sample
            W(t)    == OVERALL_WEIGHTS[t] * Units(s.scores[t])
            sum     == W("vector_score") + W("water_score") + W("respiratory_score")
                       + W("heat_score") + W("nutrition_score") + W("mental_score")
                       + W("skin_score")
            clamped == IF sum > 1000000 THEN 1000000 ELSE sum
            diff    == 100 * Units(s.overall_score) - clamped
        IN  /\ (0 - 100) <= diff /\ diff <= 100
            /\ s.overall_label = to_label(s.overall_score)

\* C16: every training sample stores each of the seven disease scores and the
\* overall score inside [0,1], for every month and every value of the draws.
C16_StoredScoresInUnit ==
    output.fn = "training_sample" =>
        /\ InRange(output.sample.overall_score, 0, 1)
        /\ \A t \in Targets : InRange(output.sample.scores[t], 0, 1)

\* C16 witness: a sample whose vector-borne risk came out above 1 (humidity 118,
\* temperature 45, in season) and was stored as 1
C16_Witness ==
    /\ output.fn = "training_sample"
    /\ LT(R(1, 1), risks(input)["vector_score"])
    /\ EQ(output.sample.scores["vector_score"], R(1, 1))
    /\ LT(output.sample.overall_score, R(1, 1))

C18_SeasonSameOnBothPaths ==
    /\ output.fn = "season" =>
          /\ output.season = output.trained_season
          /\ output.season = (output.month % 12) \div 3
          /\ output.season \in 0..3
    /\ output.fn = "training_sample" =>
          /\ output.sample.season = predict_season(output.sample.month)
          /\ output.sample.season \in 0..3

\* C18 witness: predict's derivation for the month -1, which both paths put
\* in season 3
C18_Witness ==
    /\ output.fn = "season"
    /\ input.month.given /\ input.month.value = 0 - 1
    /\ output.month = 0 - 1
    /\ output.season = 3 /\ output.trained_season = 3

\* C19: when train() has returned normally, on a registry that was untrained
\* or trained, is_trained is true and the scaler, the classifier, each of the
\* seven regressors and every training metric are those of this run; the run
\* trained on the 8000 samples of seed 42, as every run does, so a second
\* train() leaves what the first left.
C19_TrainReplacesFittedState ==
    (tpc = "idle" /\ last = "ok") =>
        /\ is_trained
        /\ FittedBy(runs)
        /\ \A k \in MetricKeys : training_metrics[k] = runs
        /\ df = samples_from(Seeded(42), 8000)

\* C19 witness: a second train() returned normally on an already trained
\* registry
C19_Witness ==
    /\ tpc = "idle" /\ last = "ok"
    /\ runs = 2
    /\ is_trained
    /\ scaler = 2

\* C20: every confidence of a risk report lies in [0,1]: the overall
\* confidence, which is the largest class probability, and the confidence of
\* each of the seven disease entries, whose score lies in [0,100].
C20_ConfidencesInUnit ==
    output.fn = "report" =>
        /\ InRange(output.overall_confidence, 0, 1)
        /\ \A t \in Targets : InRange(output.disease_risks[t].confidence, 0, 1)

\* C20 witness: a report for the class probability 1 with a disease entry of
\* score 100, whose confidence is 0.93, and one of score 0, whose is 0.78
C20_Witness ==
    /\ output.fn = "report"
    /\ EQ(output.overall_confidence, R(1, 1))
    /\ \E t \in Targets : /\ EQ(output.disease_risks[t].risk_score, R(100, 1))
                          /\ EQ(output.disease_risks[t].confidence, R(93, 100))
    /\ \E t \in Targets : /\ EQ(output.disease_risks[t].risk_score, R(0, 1))
                          /\ EQ(output.disease_risks[t].confidence, R(78, 100))

\* ------------------------------------------ requests, training, generator
\* C21 (as claimed): no step of a request writes state that other requests
\* share: neither the registry nor the process-global random generator.
C21_RequestsLeaveSharedState ==
    [][(Predict \/ Request) => UNCHANGED << regvars, rng >>]_vars

\* C22 (as claimed): a fit that fails does not end train(): train() returns
\* only when the loop has been through every target.
C22_TrainAttemptsEveryTarget ==
    [][(tpc # "idle" /\ tpc' = "idle") => ti > NTargets]_vars

\* C28: once is_trained is true it stays true, whatever train() and the
\* requests do and however they end; a request that found is_trained true gets
\* neither the 503 of the routes nor the not-ready error of predict.
C28_TrainedStaysTrained ==
    /\ [][is_trained => is_trained']_vars
    /\ []((req.ep # "none" /\ req.trained) =>
             (resp.status # 503 /\ pcall.out # "RuntimeError"))

\* C28 witness: after a training succeeded and a later one failed, a /predict
\* request was answered, and not with 503
C28_Witness ==
    /\ is_trained
    /\ last = "failed"
    /\ req.ep = "predict" /\ req.trained
    /\ resp.status \in {200, 500}

\* C29: every train() leaves the process-global generator at seed 42 with
\* 8000 * 13 draws made, whatever state it was in, and nothing else seeds it:
\* the first forecast after any training starts from that one state.
C29_TrainReseedsGenerator ==
    /\ [][(runs' = runs + 1) => rng' = Advance(Seeded(42), 8000 * 13)]_vars
    /\ [](runs > 0 => (rng.seed = 42 /\ rng.pos >= 8000 * 13))

\* C29 witness: a second training began after a forecast had drawn from the
\* generator, which is back where the first training left it
C29_Witness ==
    /\ runs = 2
    /\ resp.kind = "report"
    /\ rng = Advance(Seeded(42), 8000 * 13)

\* C23: the overall score predict returns is (class index / 3) * 75 +
\* confidence * 25 rounded to one decimal, for every class index 0..3, the
\* confidence being the one predict returns beside it.
C23_OverallScoreFormula ==
    output.fn = "predict" =>
        LET exact == Add(R(25 * input.idx, 1), Mul(R(25, 1), input.conf))
            score == output.overall_score
        IN  /\ output.overall_confidence = input.conf
            /\ (10 * score.n) % score.d = 0
            /\ LE(Add(exact, R(0 - 1, 20)), score)
            /\ LE(score, Add(exact, R(1, 20)))

\* C23 witness: class index 3 with confidence 0.5 gave 87.5
C23_Witness ==
    /\ output.fn = "predict"
    /\ input.idx = 3
    /\ EQ(input.conf, R(1, 2))
    /\ EQ(output.overall_score, R(875, 10))

\* the category a block is about
KeyOf(block) == CHOOSE t \in Targets : DISEASE_META[t] = block.disease

\* C24: the blocks generate_recommendations returns are in descending order of
\* score, and blocks of equal score are in the order their categories have in
\* the disease-score dict: vector, water, respiratory, heat, nutrition, mental,
\* skin.
C24_BlocksByScoreThenCategory ==
    (output.fn = "generate_recommendations"
        /\ output.recs[1].disease # "General Health") =>
        \A i, j \in 1..Len(output.recs) :
            i < j =>
               \/ LT(output.recs[j].risk_score, output.recs[i].risk_score)
               \/ /\ EQ(output.recs[j].risk_score, output.recs[i].risk_score)
                  /\ KeyIndex(KeyOf(output.recs[i])) < KeyIndex(KeyOf(output.recs[j]))

\* C24 witness: skin scores above vector and water, which score the same: the
\* blocks are skin, vector, water
C24_Witness ==
    /\ output.fn = "generate_recommendations"
    /\ EQ(input.disease_scores["vector_score"], input.disease_scores["water_score"])
    /\ LT(input.disease_scores["vector_score"], input.disease_scores["skin_score"])
    /\ Len(output.recs) = 3
    /\ output.recs[1].disease = "Skin & Eye"
    /\ output.recs[2].disease = "Vector-Borne"
    /\ output.recs[3].disease = "Water-Borne"

\* C30: in a category block severity and urgency go together, Critical with
\* "critical", High with "warning", Moderate with "info", and no category block
\* is Low; Low and "success" occur only on the generic entry, which then is
\* the whole result.
C30_SeverityMatchesUrgency ==
    output.fn = "generate_recommendations" =>
        \A i \in 1..Len(output.recs) :
            LET b == output.recs[i]
            IN  /\ b.severity = "Critical" <=> b.type = "critical"
                /\ b.severity = "High" <=> b.type = "warning"
                /\ b.severity = "Moderate" <=> b.type = "info"
                /\ b.severity = "Low" <=> b.type = "success"
                /\ b.severity = "Low" <=> b.disease = "General Health"
                /\ b.disease = "General Health" => Len(output.recs) = 1

\* C30 witness: one result with a Moderate block just below 50 and a High
\* block just below 75
C30_Witness ==
    /\ output.fn = "generate_recommendations"
    /\ \E i \in 1..Len(output.recs) :
          /\ LT(output.recs[i].risk_score, R(50, 1))
          /\ output.recs[i].severity = "Moderate" /\ output.recs[i].type = "info"
    /\ \E i \in 1..Len(output.recs) :
          /\ LT(output.recs[i].risk_score, R(75, 1))
          /\ LT(R(74, 1), output.recs[i].risk_score)
          /\ output.recs[i].severity = "High" /\ output.recs[i].type = "warning"

\* C25: with the noise at zero the score of day d is base_score + 0.3*d when
\* base_score > 60 and base_score - 0.2*d otherwise (also at exactly 60),
\* clamped to [5,100] and rounded; so the 14 scores never decrease from day to
\* day when base_score > 60 and never increase otherwise.
C25_DriftDirection ==
    (output.fn = "generate_14day_forecast" /\ rng.seed = QuietSeed) =>
        LET b      == input.base_score
            f      == output.forecast
            rising == LT(R(60, 1), b)
            x(d)   == Add(b, IF rising THEN R(3 * d, 10) ELSE R(0 - 2 * d, 10))
            c(d)   == IF LT(x(d), R(5, 1)) THEN R(5, 1)
                      ELSE IF LT(R(100, 1), x(d)) THEN R(100, 1)
                      ELSE x(d)
        IN  /\ \A d \in 1..14 : \E v \in round1(c(d)) : EQ(f[d].risk_score, v)
            /\ rising =>
                  \A d \in 1..13 : LE(f[d].risk_score, f[d + 1].risk_score)
            /\ ~rising =>
                  \A d \in 1..13 : LE(f[d + 1].risk_score, f[d].risk_score)

\* C25 witness: the base score 60 itself, without noise, goes down from 59.8 on
\* day 1 to 57.2 on day 14
C25_Witness ==
    /\ output.fn = "generate_14day_forecast"
    /\ rng.seed = QuietSeed
    /\ EQ(input.base_score, R(60, 1))
    /\ EQ(output.forecast[1].risk_score, R(598, 10))
    /\ EQ(output.forecast[14].risk_score, R(572, 10))

\* C26 (as claimed): every training sample stores its climate features inside
\* the ranges of a reading: temperature in [-10,60], humidity in [0,100],
\* rainfall in [0,1000], aqi in [0,500], uv_index in [0,15], month in 1..12,
\* whatever the noise draws are.
C26_FeaturesInReadingRanges ==
    output.fn = "training_sample" =>
        LET s == output.sample
            Within(x, lo, hi) == LE(R(lo, 1), x) /\ LE(x, R(hi, 1))
        IN  /\ Within(s.temperature, 0 - 10, 60)
            /\ Within(s.humidity, 0, 100)
            /\ Within(s.rainfall, 0, 1000)
            /\ Within(s.aqi, 0, 500)
            /\ Within(s.uv_index, 0, 15)
            /\ s.month \in 1..12

\* C27 (as claimed): predict takes the month of the reading whenever the
\* reading carries one, and the current calendar month only when it carries
\* none; the season feature is the season of that month.
C27_ReadingMonthWins ==
    output.fn = "season" =>
        /\ output.month = IF input.month.given THEN input.month.value ELSE input.now
        /\ output.season = predict_season(output.month)

====
